---- MODULE Spec2Model ----
(***************************************************************************)
(* A model of two components of openspeech:                                *)
(*   - SpectrogramFeatureTransform (data/audio/spectrogram/spectrogram.py) *)
(*   - ConformerModel              (models/conformer/model.py)             *)
(*                                                                         *)
(* Tensors are modelled by their shape and by their provenance (which      *)
(* operations, with which parameters, were applied to which input), not by *)
(* their floating-point contents.                                          *)
(***************************************************************************)
EXTENDS Integers, Sequences, FiniteSets, TLC

VARIABLES
    configs,        \* the DictConfig handed to both constructors
    ft,             \* the SpectrogramFeatureTransform object
    signal_len,     \* length of the signal of the last _get_feature call
    feature,        \* outcome of the last _get_feature call
    model,          \* the ConformerModel object (fc, encoder)
    weights,        \* current parameter snapshot of encoder and fc
    call,           \* per caller: the call in progress or last completed
    collector       \* the external loss/metric collector

vars == <<configs, ft, signal_len, feature, model, weights, call, collector>>

featureVars == <<ft, signal_len, feature>>
modelVars == <<model, weights, call, collector>>

(***************************************************************************)
(* Bounds                                                                  *)
(***************************************************************************)
MaxSignalLen == 40
MaxBatch == 2
MaxSeqLen == 3
MaxCalls == 2
VocabSize == 4

(***************************************************************************)
(* Configuration values.  frame_length and frame_shift are floats in       *)
(* milliseconds; they are represented in tenths of a millisecond.          *)
(***************************************************************************)
DefaultSampleRate == 16000
DefaultFrameLength == 200
DefaultFrameShift == 100
DefaultNumMels == 161

\* sample_rate * 0.001 * frame_length, with frame_length in tenths of ms,
\* is the rational  sample_rate * tenths / MsDenominator
MsDenominator == 10000

SampleRates == {1000, DefaultSampleRate}
FrameTenths == {0, 5, 10, 15, 25, 27, 30, DefaultFrameShift, DefaultFrameLength}
NumMelsValues == {80, DefaultNumMels}

DefaultModelConfigs == [encoder_dim |-> 512]

AudioConfigs ==
    [sample_rate : SampleRates, frame_length : FrameTenths,
     frame_shift : FrameTenths, num_mels : NumMelsValues]

\* signal lengths: every short length, and the lengths around one and two
\* windows of the default configuration
SignalLens == (0..MaxSignalLen) \cup {319, 320, 321, 479, 480, 481}

(***************************************************************************)
(* SpectrogramFeatureTransform                                             *)
(***************************************************************************)

\* Python 3 round() of the non-negative rational num/den: to the nearest
\* integer, ties to the even one
PyRound(num, den) ==
    LET q == num \div den
        r == num % den
    IN  IF 2 * r < den THEN q
        ELSE IF 2 * r > den THEN q + 1
        ELSE IF q % 2 = 0 THEN q ELSE q + 1

PyTrunc(num, den) == num \div den

NotConstructed == [constructed |-> FALSE, n_fft |-> 0, hop_length |-> 0]

\* a constructor that drops the round() and only truncates
SpectrogramInitTruncating(cfg) ==
    [constructed |-> TRUE,
     n_fft |-> PyTrunc(cfg.audio.sample_rate * cfg.audio.frame_length, MsDenominator),
     hop_length |-> PyTrunc(cfg.audio.sample_rate * cfg.audio.frame_shift, MsDenominator)]

\* __init__: n_fft and hop_length from the audio configuration; num_mels is
\* not read, and nothing is validated
SpectrogramInit(cfg) ==
    [constructed |-> TRUE,
     n_fft |-> PyRound(cfg.audio.sample_rate * cfg.audio.frame_length, MsDenominator),
     hop_length |-> PyRound(cfg.audio.sample_rate * cfg.audio.frame_shift, MsDenominator)]

NoFeature == [status |-> "none", error |-> "none", shape |-> <<>>, frames |-> <<>>]

RuntimeError(check) ==
    [status |-> "error", error |-> check, shape |-> <<>>, frames |-> <<>>]

\* torch.stft on a 1-D real signal of length len, as _get_feature calls it
\* (win_length = n_fft, window of n_fft points, normalized = False), in the
\* releases where a real input gives the real view of the complex result.
\* The checks are made in this order and each raises a RuntimeError.
\* With center the signal is reflect-padded by n_fft \div 2 on both sides.
\* The result has shape (frequencies, frames, 2); frames[t] is the interval of
\* signal indices (0-based) that frame t is computed from.
Stft(len, n_fft, hop_length, center, onesided) ==
    LET pad == IF center THEN n_fft \div 2 ELSE 0
        plen == len + 2 * pad
        n_frames == 1 + (plen - n_fft) \div hop_length
        n_freq == IF onesided THEN n_fft \div 2 + 1 ELSE n_fft
    IN  IF center /\ pad >= len THEN RuntimeError("padding")
        ELSE IF n_fft <= 0 \/ n_fft > plen THEN RuntimeError("n_fft")
        ELSE IF hop_length <= 0 THEN RuntimeError("hop_length")
        ELSE [status |-> "ok", error |-> "none",
              shape |-> <<n_freq, n_frames, 2>>,
              frames |-> [t \in 1..n_frames |->
                            [lo |-> (t - 1) * hop_length - pad,
                             hi |-> (t - 1) * hop_length - pad + n_fft - 1]]]

\* spectrogram[:, :, 0].pow(2) + spectrogram[:, :, 1].pow(2), .pow(0.5) and
\* np.log1p: the last axis is indexed away, the first two are kept in order
Magnitude(spec) == [spec EXCEPT !.shape = <<spec.shape[1], spec.shape[2]>>]

\* a _get_feature that calls stft with its default center=True
GetFeatureCentered(self, len) ==
    LET spec == Stft(len, self.n_fft, self.hop_length, TRUE, TRUE)
    IN  IF spec.status = "error" THEN spec ELSE Magnitude(spec)

\* a _get_feature that catches the stft failure and returns an empty array
GetFeatureSwallowing(self, len) ==
    LET spec == Stft(len, self.n_fft, self.hop_length, FALSE, TRUE)
    IN  IF spec.status = "error"
        THEN [status |-> "ok", error |-> "none", shape |-> <<0, 0>>, frames |-> <<>>]
        ELSE Magnitude(spec)

\* _get_feature: an stft failure is an exception that leaves the function
GetFeature(self, len) ==
    LET spec == Stft(len, self.n_fft, self.hop_length, FALSE, TRUE)
    IN  IF spec.status = "error" THEN spec ELSE Magnitude(spec)

FeatureIdle ==
    /\ ft = NotConstructed
    /\ signal_len = 0
    /\ feature = NoFeature

(***************************************************************************)
(* ConformerModel                                                          *)
(***************************************************************************)
Weights == {"w0", "w1"}
Callers == {"trainer", "client"}
StepOps == {"training_step", "validation_step", "test_step"}
AllOps == StepOps \cup {"forward"}
Targets == {"y1", "y2"}

\* the trainer thread drives the steps; any thread may call forward
OpsOf(c) == IF c = "trainer" THEN AllOps ELSE {"forward"}

\* a batch (inputs, targets, input_lengths, target_lengths); inputs is a
\* tensor of shape (B, T, D) with the smallest or the largest batch size and
\* sequence length; every sequence of the batch has full length T
Batches ==
    { [inputs |-> [B |-> b, T |-> t, D |-> d],
       targets |-> y,
       input_lengths |-> [i \in 1..b |-> t],
       target_lengths |-> <<"len", y>>] :
        b \in {1, MaxBatch}, t \in {1, MaxSeqLen}, d \in NumMelsValues,
        y \in Targets }

\* forward takes inputs and input_lengths only
ForwardBatches ==
    { [b EXCEPT !.targets = "none", !.target_lengths = <<>>] : b \in Batches }

NoInputs == [B |-> 0, T |-> 0, D |-> 0]

\* a tensor value: the operations applied, in order, to an input
NoneTensor == [ops |-> <<>>, inputs |-> NoInputs, input_lengths |-> <<>>]

Apply(x, name, param) ==
    [x EXCEPT !.ops = Append(@, [name |-> name, param |-> param])]

OpNames(x) == [i \in 1..Len(x.ops) |-> x.ops[i].name]

\* the encoder capability: (outputs, logits or None, output_lengths), or a
\* ShapeMismatch failure when the inputs do not have the feature dimension
\* the encoder was built for or the lengths do not fit the batch
EncoderForward(enc, w, inputs, input_lengths) ==
    LET src == [ops |-> <<>>, inputs |-> inputs, input_lengths |-> input_lengths]
    IN  IF \/ inputs.D # enc.input_dim
           \/ Len(input_lengths) # inputs.B
           \/ \E i \in 1..Len(input_lengths) : input_lengths[i] > inputs.T
        THEN [status |-> "error", error |-> "ShapeMismatch",
              outputs |-> NoneTensor, logits |-> NoneTensor,
              output_lengths |-> NoneTensor]
        ELSE [status |-> "ok", error |-> "none",
              outputs |-> Apply(src, "encoder.outputs", w),
              logits |-> IF enc.joint_ctc_attention
                         THEN Apply(src, "encoder.logits", w)
                         ELSE NoneTensor,
              output_lengths |-> Apply(src, "encoder.output_lengths", "none")]

\* Linear(in_features, out_features, bias) applied with the weights w
LinearForward(fc, w, x) ==
    Apply(x, IF fc.bias THEN "linear+bias" ELSE "linear", w)

LogSoftmax(x) == Apply(x, "log_softmax", "dim=-1")

Argmax(x) == Apply(x, "argmax", "dim=-1")

NoCollectorCall ==
    [stage |-> "none", logits |-> NoneTensor, output_lengths |-> NoneTensor,
     targets |-> "none", target_lengths |-> <<>>]

NoOutputs == [kind |-> "none"]

\* collect_outputs(stage, logits, output_lengths, targets, target_lengths):
\* the collector records the call and returns its result for that call
CollectOutputs(col, stage, logits, output_lengths, targets, target_lengths) ==
    [n_calls |-> col.n_calls + 1,
     last |-> [stage |-> stage, logits |-> logits,
               output_lengths |-> output_lengths,
               targets |-> targets, target_lengths |-> target_lengths],
     returned |-> [kind |-> "collected", stage |-> stage,
                   call_no |-> col.n_calls + 1]]

Unbuilt ==
    [built |-> FALSE,
     fc |-> [in_features |-> 0, out_features |-> 0, bias |-> FALSE],
     encoder |-> [input_dim |-> 0, encoder_dim |-> 0, num_classes |-> 0,
                  joint_ctc_attention |-> FALSE]]

\* __init__: the base constructor keeps configs and num_classes; fc is a
\* bias-free Linear from encoder_dim to num_classes
ModelInit(cfg, num_classes) ==
    [Unbuilt EXCEPT !.fc = [in_features |-> cfg.model.encoder_dim,
                            out_features |-> num_classes, bias |-> FALSE],
                    !.encoder.num_classes = num_classes]

\* a build_model with the feature dimension written into the code
BuildModelHardCodedDim(self, cfg) ==
    [self EXCEPT !.built = TRUE,
                 !.encoder = [input_dim |-> 80,
                              encoder_dim |-> cfg.model.encoder_dim,
                              num_classes |-> self.encoder.num_classes,
                              joint_ctc_attention |-> FALSE]]

\* build_model: the encoder takes input_dim from configs.audio.num_mels and
\* never has a joint CTC-attention head.  Its other arguments (depth, heads,
\* expansion factors, dropout rates, kernel size) shape the encoder's
\* internals, which EncoderForward treats as one function.
BuildModel(self, cfg) ==
    [self EXCEPT !.built = TRUE,
                 !.encoder = [input_dim |-> cfg.audio.num_mels,
                              encoder_dim |-> cfg.model.encoder_dim,
                              num_classes |-> self.encoder.num_classes,
                              joint_ctc_attention |-> FALSE]]

OkReturn(outputs) == [status |-> "ok", error |-> "none", outputs |-> outputs]
Raised(error) == [status |-> "error", error |-> error, outputs |-> NoOutputs]

\* the effect of a handler once it has the encoder's result enc:
\* what it returns and what it leaves of the collector and of the weights
NoLogits == NoneTensor

\* the forward of the CTC base model: project, log-softmax, argmax
CTCForwardEffect(self, w, col, batch, enc) ==
    LET logits == LogSoftmax(LinearForward(self.fc, w, enc.outputs))
    IN  [ret |-> OkReturn([kind |-> "predictions", y_hats |-> Argmax(logits),
                           logits |-> logits,
                           output_lengths |-> enc.output_lengths]),
         logits |-> logits,
         collector |-> [n_calls |-> col.n_calls, last |-> NoCollectorCall,
                        returned |-> NoOutputs],
         weights |-> w]

\* forward: delegates to the base model
ForwardEffect(self, w, col, batch, enc) == CTCForwardEffect(self, w, col, batch, enc)

\* a training_step that also applies an optimizer update itself
TrainingStepUpdatingWeights(self, w, col, batch, enc) ==
    LET logits == LogSoftmax(LinearForward(self.fc, w, enc.outputs))
        c2 == CollectOutputs(col, "train", logits, enc.output_lengths,
                             batch.targets, batch.target_lengths)
    IN  [ret |-> OkReturn(c2.returned), logits |-> logits, collector |-> c2,
         weights |-> CHOOSE v \in Weights : v # w]

\* training_step, from the encoder's result on
TrainingStepEffect(self, w, col, batch, enc) ==
    LET logits == LogSoftmax(LinearForward(self.fc, w, enc.outputs))
        c2 == CollectOutputs(col, "train", logits, enc.output_lengths,
                             batch.targets, batch.target_lengths)
    IN  [ret |-> OkReturn(c2.returned), logits |-> logits, collector |-> c2,
         weights |-> w]

\* a validation_step copied from training_step with the stage left as it was
ValidationStepWrongStage(self, w, col, batch, enc) ==
    LET logits == LogSoftmax(LinearForward(self.fc, w, enc.outputs))
        c2 == CollectOutputs(col, "train", logits, enc.output_lengths,
                             batch.targets, batch.target_lengths)
    IN  [ret |-> OkReturn(c2.returned), logits |-> logits, collector |-> c2,
         weights |-> w]

\* validation_step, from the encoder's result on
ValidationStepEffect(self, w, col, batch, enc) ==
    LET logits == LogSoftmax(LinearForward(self.fc, w, enc.outputs))
        c2 == CollectOutputs(col, "valid", logits, enc.output_lengths,
                             batch.targets, batch.target_lengths)
    IN  [ret |-> OkReturn(c2.returned), logits |-> logits, collector |-> c2,
         weights |-> w]

\* a test_step that hands the projection to the collector without log-softmax
TestStepNoLogSoftmax(self, w, col, batch, enc) ==
    LET logits == LinearForward(self.fc, w, enc.outputs)
        c2 == CollectOutputs(col, "test", logits, enc.output_lengths,
                             batch.targets, batch.target_lengths)
    IN  [ret |-> OkReturn(c2.returned), logits |-> logits, collector |-> c2,
         weights |-> w]

\* a test_step whose projection passes through a dropout that draws from a
\* generator advanced by every earlier step
TestStepWithDropout(self, w, col, batch, enc) ==
    LET draw == IF col.n_calls = 0 THEN "first draw" ELSE "later draw"
        logits == LogSoftmax(Apply(LinearForward(self.fc, w, enc.outputs),
                                   "dropout", draw))
        c2 == CollectOutputs(col, "test", logits, enc.output_lengths,
                             batch.targets, batch.target_lengths)
    IN  [ret |-> OkReturn(c2.returned), logits |-> logits, collector |-> c2,
         weights |-> w]

\* test_step, from the encoder's result on
TestStepEffect(self, w, col, batch, enc) ==
    LET logits == LogSoftmax(LinearForward(self.fc, w, enc.outputs))
        c2 == CollectOutputs(col, "test", logits, enc.output_lengths,
                             batch.targets, batch.target_lengths)
    IN  [ret |-> OkReturn(c2.returned), logits |-> logits, collector |-> c2,
         weights |-> w]

NoBatch ==
    [inputs |-> NoInputs, targets |-> "none", input_lengths |-> <<>>,
     target_lengths |-> <<>>]

NoEncoderResult ==
    [status |-> "none", error |-> "none", outputs |-> NoneTensor,
     logits |-> NoneTensor, output_lengths |-> NoneTensor]

\* a caller: where it is in its call, the call's arguments and locals, what
\* the call handed to the collector and what it returned
IdleCall ==
    [pc |-> "idle", op |-> "none", batch |-> NoBatch,
     enc |-> NoEncoderResult, logits |-> NoLogits,
     collected |-> NoCollectorCall,
     ret |-> [status |-> "none", error |-> "none", outputs |-> NoOutputs]]

\* no model is constructed where only the transform is used
NoModel ==
    /\ model = [built |-> FALSE]
    /\ weights = "w0"
    /\ call = <<>>
    /\ collector = [n_calls |-> 0]

InitFeature ==
    /\ configs \in [audio : AudioConfigs, model : {DefaultModelConfigs}]
    /\ FeatureIdle
    /\ NoModel

Construct ==
    /\ ~ft.constructed
    /\ ft' = SpectrogramInit(configs)
    /\ UNCHANGED <<configs, signal_len, feature, modelVars>>

Extract ==
    /\ ft.constructed
    /\ \E len \in SignalLens :
        /\ signal_len' = len
        /\ feature' = GetFeature(ft, len)
    /\ UNCHANGED <<configs, ft, modelVars>>

NextFeature == Construct \/ Extract

SpecFeature == InitFeature /\ [][NextFeature]_vars

(***************************************************************************)
(* Claims about SpectrogramFeatureTransform (checked under SpecFeature)    *)
(***************************************************************************)

Extracted == ft.constructed /\ feature.status # "none"

ExpectedFrames == (signal_len - ft.n_fft) \div ft.hop_length + 1
ExpectedBins == ft.n_fft \div 2 + 1

\* C1: for n_fft >= 1, hop_length >= 1 and a signal of length L >= n_fft,
\* _get_feature returns an array with floor((L - n_fft) / hop_length) + 1 time
\* frames and n_fft \div 2 + 1 frequency bins, and every frame is computed from
\* samples of the signal itself (none from padding).
C1_FrameAndBinCount ==
    (Extracted /\ ft.n_fft >= 1 /\ ft.hop_length >= 1 /\ signal_len >= ft.n_fft)
    => /\ feature.status = "ok"
       /\ Len(feature.shape) = 2
       /\ feature.shape[2] = ExpectedFrames
       /\ feature.shape[1] = ExpectedBins
       /\ Len(feature.frames) = ExpectedFrames
       /\ \A t \in 1..Len(feature.frames) :
            /\ feature.frames[t].lo >= 0
            /\ feature.frames[t].hi <= signal_len - 1
            /\ feature.frames[t].hi - feature.frames[t].lo + 1 = ft.n_fft

C1_Witness ==
    /\ Extracted
    /\ ft.n_fft = 3 /\ ft.hop_length = 2 /\ signal_len = 8
    /\ feature.status = "ok"
    /\ Len(feature.frames) = 3

\* C2: the returned array has shape (time_frames, frequency_bins): time on
\* the first axis, frequency on the second.
C2_ShapeIsTimeByFrequency ==
    (Extracted /\ feature.status = "ok")
    => feature.shape = <<ExpectedFrames, ExpectedBins>>

\* C3: for a signal shorter than n_fft, _get_feature fails (the window-size
\* check of the transform), the failure reaches the caller, and no feature
\* array, empty or padded, is returned.
C3_ShortSignalFails ==
    (Extracted /\ signal_len < ft.n_fft)
    => /\ feature.status = "error"
       /\ feature.error = "n_fft"
       /\ feature.shape = <<>>
       /\ feature.frames = <<>>

C3_Witness ==
    /\ Extracted
    /\ ft.n_fft = 320 /\ signal_len = 319
    /\ feature.status = "error"

\* n is num/den rounded to the nearest integer, a tie going to the even one
IsRounded(n, num, den) ==
    /\ 2 * n * den - 2 * num <= den
    /\ 2 * num - 2 * n * den <= den
    /\ (2 * n * den - 2 * num = den \/ 2 * num - 2 * n * den = den) => n % 2 = 0

IsDefaultFraming ==
    /\ configs.audio.sample_rate = 16000
    /\ configs.audio.frame_length = 200
    /\ configs.audio.frame_shift = 100

C4_Derived ==
    ft.constructed
    => /\ IsRounded(ft.n_fft,
                    configs.audio.sample_rate * configs.audio.frame_length, 10000)
       /\ IsRounded(ft.hop_length,
                    configs.audio.sample_rate * configs.audio.frame_shift, 10000)
       /\ IsDefaultFraming => (ft.n_fft = 320 /\ ft.hop_length = 160)
       /\ (IsDefaultFraming /\ feature.status # "none" /\ signal_len = 320)
            => (feature.status = "ok" /\ feature.shape[2] = 1)
       /\ (IsDefaultFraming /\ feature.status # "none" /\ signal_len = 480)
            => (feature.status = "ok" /\ feature.shape[2] = 2)

C4_Fixed == ft.constructed => ft' = ft

\* C4: the constructor sets n_fft = round(sample_rate * 0.001 * frame_length)
\* and hop_length = round(sample_rate * 0.001 * frame_shift), which no later
\* call changes; 16000 Hz, 20 ms, 10 ms give 320 and 160, so that 320 samples
\* make 1 time frame and 480 samples make 2.
C4_RoundedAndFixed == []C4_Derived /\ [][C4_Fixed]_vars

C4_Witness ==
    /\ IsDefaultFraming
    /\ ft.n_fft = 320 /\ ft.hop_length = 160
    /\ signal_len = 480
    /\ feature.status = "ok"
    /\ feature.shape[2] = 2

\* C10 (transform side): a configuration whose num_mels disagrees with the
\* n_fft \div 2 + 1 bins the transform emits is rejected at construction, so
\* no transform is ever constructed from one.
C10_InconsistentConfigRejected ==
    (ft.constructed /\ ft.n_fft >= 1 /\ ft.hop_length >= 1)
    => configs.audio.num_mels = ft.n_fft \div 2 + 1

(***************************************************************************)
(* The model in use: callers run forward and the three steps, each in two  *)
(* phases (the encoder, then projection and hand-over), and the optimizer  *)
(* updates the weights between calls.                                      *)
(***************************************************************************)

\* inputs, targets, input_lengths, target_lengths = batch;
\* ... = self.encoder(inputs, input_lengths)
StepEncode(self, w, batch) ==
    EncoderForward(self.encoder, w, batch.inputs, batch.input_lengths)

\* the base model's forward(inputs, input_lengths) up to the encoder
CTCForwardEncode(self, w, inputs, input_lengths) ==
    EncoderForward(self.encoder, w, inputs, input_lengths)

ForwardEncode(self, w, inputs, input_lengths) ==
    CTCForwardEncode(self, w, inputs, input_lengths)

InitModel ==
    /\ configs \in [audio : {a \in AudioConfigs :
                               /\ a.sample_rate = DefaultSampleRate
                               /\ a.frame_length = DefaultFrameLength
                               /\ a.frame_shift = DefaultFrameShift},
                    model : {DefaultModelConfigs}]
    /\ FeatureIdle
    /\ model = ModelInit(configs, VocabSize)
    /\ weights = "w0"
    /\ call = [c \in Callers |-> IdleCall]
    /\ collector = [n_calls |-> 0]

Build ==
    /\ ~model.built
    /\ model' = BuildModel(model, configs)
    /\ UNCHANGED <<configs, featureVars, weights, call, collector>>

CanStart(c, op) ==
    /\ model.built
    /\ call[c].pc \in {"idle", "done"}
    /\ op \in OpsOf(c)
    /\ op \in StepOps => collector.n_calls < MaxCalls

\* the encoder phase of a call; an encoder failure ends the call
StartCall(c, op, batch, enc) ==
    /\ call' = [call EXCEPT ![c] =
                  [pc |-> IF enc.status = "ok" THEN "encoded" ELSE "done",
                   op |-> op, batch |-> batch, enc |-> enc,
                   logits |-> NoLogits, collected |-> NoCollectorCall,
                   ret |-> IF enc.status = "ok" THEN IdleCall.ret
                           ELSE Raised(enc.error)]]
    /\ UNCHANGED <<configs, featureVars, model, weights, collector>>

\* the rest of a call
FinishCall(c, eff) ==
    /\ call' = [call EXCEPT ![c].pc = "done", ![c].logits = eff.logits,
                            ![c].collected = eff.collector.last,
                            ![c].ret = eff.ret]
    /\ collector' = [n_calls |-> eff.collector.n_calls]
    /\ weights' = eff.weights
    /\ UNCHANGED <<configs, featureVars, model>>

ForwardStart(c) ==
    \E batch \in ForwardBatches :
        /\ CanStart(c, "forward")
        /\ StartCall(c, "forward", batch,
                     ForwardEncode(model, weights, batch.inputs, batch.input_lengths))

ForwardReturn(c) ==
    /\ call[c].pc = "encoded" /\ call[c].op = "forward"
    /\ FinishCall(c, ForwardEffect(model, weights, collector, call[c].batch, call[c].enc))

TrainingStepStart(c) ==
    \E batch \in Batches :
        /\ CanStart(c, "training_step")
        /\ StartCall(c, "training_step", batch, StepEncode(model, weights, batch))

TrainingStepReturn(c) ==
    /\ call[c].pc = "encoded" /\ call[c].op = "training_step"
    /\ FinishCall(c, TrainingStepEffect(model, weights, collector, call[c].batch, call[c].enc))

ValidationStepStart(c) ==
    \E batch \in Batches :
        /\ CanStart(c, "validation_step")
        /\ StartCall(c, "validation_step", batch, StepEncode(model, weights, batch))

ValidationStepReturn(c) ==
    /\ call[c].pc = "encoded" /\ call[c].op = "validation_step"
    /\ FinishCall(c, ValidationStepEffect(model, weights, collector, call[c].batch, call[c].enc))

TestStepStart(c) ==
    \E batch \in Batches :
        /\ CanStart(c, "test_step")
        /\ StartCall(c, "test_step", batch, StepEncode(model, weights, batch))

TestStepReturn(c) ==
    /\ call[c].pc = "encoded" /\ call[c].op = "test_step"
    /\ FinishCall(c, TestStepEffect(model, weights, collector, call[c].batch, call[c].enc))

\* the external optimizer: a new parameter snapshot, between calls
OptimizerStep ==
    /\ model.built
    /\ \A c \in Callers : call[c].pc # "encoded"
    /\ weights' \in Weights \ {weights}
    /\ UNCHANGED <<configs, featureVars, model, call, collector>>

NextModel ==
    \/ Build
    \/ OptimizerStep
    \/ \E c \in Callers :
        \/ ForwardStart(c)
        \/ ForwardReturn(c)
        \/ TrainingStepStart(c)
        \/ TrainingStepReturn(c)
        \/ ValidationStepStart(c)
        \/ ValidationStepReturn(c)
        \/ TestStepStart(c)
        \/ TestStepReturn(c)

SpecModel == InitModel /\ [][NextModel]_vars

(***************************************************************************)
(* Claims about ConformerModel (checked under SpecModel)                   *)
(***************************************************************************)

\* caller c goes from the encoder phase to the end of its call in this step
Returns(c) == call[c].pc = "encoded" /\ call'[c].pc = "done"

StepReturns(c) == Returns(c) /\ call[c].op \in StepOps

ProjectionPipeline == <<"encoder.outputs", "linear", "log_softmax">>

\* what forward(inputs, input_lengths) returns under the weights w
ForwardOutputs(w, inputs, input_lengths) ==
    ForwardEffect(model, w, collector,
                  [NoBatch EXCEPT !.inputs = inputs, !.input_lengths = input_lengths],
                  ForwardEncode(model, w, inputs, input_lengths)).ret.outputs

C5_Step ==
    \A c \in Callers :
        StepReturns(c) =>
            LET b == call[c].batch
                fwd == ForwardOutputs(weights, b.inputs, b.input_lengths)
            IN  /\ call'[c].collected.logits = fwd.logits
                /\ call'[c].collected.output_lengths = fwd.output_lengths
                /\ OpNames(fwd.logits) = ProjectionPipeline

StageOf(op) ==
    CASE op = "training_step" -> "train"
      [] op = "validation_step" -> "valid"
      [] op = "test_step" -> "test"

C6_Step ==
    \A c \in Callers :
        /\ StepReturns(c) =>
            /\ collector'.n_calls = collector.n_calls + 1
            /\ call'[c].collected.stage = StageOf(call[c].op)
            /\ call'[c].collected.targets = call[c].batch.targets
            /\ call'[c].collected.target_lengths = call[c].batch.target_lengths
            /\ OpNames(call'[c].collected.logits) = ProjectionPipeline
            /\ call'[c].ret = OkReturn([kind |-> "collected",
                                        stage |-> StageOf(call[c].op),
                                        call_no |-> collector'.n_calls])
        /\ (call'[c] # call[c] /\ ~StepReturns(c)) => collector' = collector

\* C6: a step calls collect_outputs exactly once, after encoder and
\* projection, with its own stage tag ('train', 'valid', 'test') and the
\* batch's targets and target_lengths as they came, and returns what the
\* collector returned.
C6_OneTaggedCollectorCall == [][C6_Step]_vars

C6_Witness ==
    /\ call["trainer"].pc = "done"
    /\ call["trainer"].op = "test_step"
    /\ call["trainer"].collected.stage = "test"
    /\ call["trainer"].collected.targets = "y2"
    /\ call["trainer"].ret.status = "ok"
    /\ collector.n_calls = 2

C7_Step == call' # call => (weights' = weights /\ model' = model)

\* C7: no step of a forward, training_step, validation_step or test_step
\* call changes the weights or the architecture; the weights change only in
\* a step of the optimizer.
C7_CallsLeaveWeights == [][C7_Step]_vars

C7_Witness ==
    /\ call["trainer"].pc = "done"
    /\ call["trainer"].op = "training_step"
    /\ call["trainer"].ret.status = "ok"
    /\ call["client"].pc = "done"
    /\ call["client"].ret.status = "ok"
    /\ collector.n_calls = 2
    /\ weights = "w0"

\* the logits and output lengths as a function of the weights and the batch
PureLogits(w, batch) ==
    [ops |-> <<[name |-> "encoder.outputs", param |-> w],
               [name |-> "linear", param |-> w],
               [name |-> "log_softmax", param |-> "dim=-1"]>>,
     inputs |-> batch.inputs, input_lengths |-> batch.input_lengths]

PureLengths(batch) ==
    [ops |-> <<[name |-> "encoder.output_lengths", param |-> "none"]>>,
     inputs |-> batch.inputs, input_lengths |-> batch.input_lengths]

C8_Step ==
    \A c \in Callers :
        Returns(c) =>
            LET logits == PureLogits(weights, call[c].batch)
                lengths == PureLengths(call[c].batch)
            IN  /\ call'[c].logits = logits
                /\ call[c].op = "forward" =>
                    /\ call'[c].ret.outputs.logits = logits
                    /\ call'[c].ret.outputs.output_lengths = lengths
                /\ call[c].op \in StepOps =>
                    /\ call'[c].collected.logits = logits
                    /\ call'[c].collected.output_lengths = lengths

C9_Step ==
    \A c \in Callers :
        (call'[c] # call[c] /\ call'[c].batch.inputs.D # configs.audio.num_mels)
        => /\ call'[c].pc = "done"
           /\ call'[c].ret = Raised("ShapeMismatch")
           /\ call'[c].logits = NoLogits
           /\ call'[c].collected = NoCollectorCall
           /\ collector' = collector

\* C9: a call whose inputs have a feature dimension other than the configured
\* num_mels fails with ShapeMismatch, whatever B and T are: it has no outputs
\* and makes no collector call.
C9_WrongFeatureDimFails == [][C9_Step]_vars

C9_Witness ==
    /\ configs.audio.num_mels = 80
    /\ call["trainer"].pc = "done"
    /\ call["trainer"].op = "training_step"
    /\ call["trainer"].batch.inputs = [B |-> 2, T |-> 3, D |-> 161]
    /\ call["trainer"].ret = Raised("ShapeMismatch")
    /\ collector.n_calls = 0

====
